---- MODULE Spec2Model ----
(***************************************************************************)
(* Client-side authentication session of the MLOps monitoring front end:   *)
(* the AuthProvider (reducer, initializeAuth, login, register, logout,     *)
(* updateUser) of contexts/AuthContext and the axios client of             *)
(* services/authService (request/response interceptors, service calls).    *)
(*                                                                         *)
(* One action of the model is one JavaScript task: a call made by the UI,  *)
(* or the arrival of a response together with the whole promise chain it   *)
(* resumes (interceptor, service function, try/catch of the caller).       *)
(***************************************************************************)
EXTENDS Integers, FiniteSets, Sequences, TLC

\* ---------------------------------------------------------------- bounds
MaxReq == 2        \* requests issued in one run (GET /auth/me included)

\* ------------------------------------------------------------- universes
None == "null"
Tokens == {"t1", "t2"}            \* bearer strings the server can hand out
Users == {"u1", "u2"}             \* User records the server can return
Details == {"detail"}             \* error.response.data.detail texts
OtherKinds == {"refresh", "changePassword", "requestPasswordReset", "confirmPasswordReset"}

VARIABLES
  state,         \* AuthState held by useReducer
  localStorage,  \* localStorage item 'token'
  location,      \* window.location.href: "app" or "/login"
  initPc,        \* position of the mount effect: "start", "waiting", "done"
  initToken,     \* const token of initializeAuth (line 88)
  net,           \* requests in flight
  nreq,          \* requests issued so far
  lastLogin,     \* id of the login issued most recently (0: none)
  lastOut,       \* response received by that login (status -1: none yet)
  lastAuth,      \* outcome of the last authentication attempt applied
  lastOK,        \* access_token and user of the last successful login applied
  bootToken,     \* token in storage when the process started
  meSent,        \* get-current-identity requests issued
  ev             \* the step taken last

vars == <<state, localStorage, location, initPc, initToken, net, nreq,
          lastLogin, lastOut, lastAuth, lastOK, bootToken, meSent, ev>>

\* ------------------------------------------------------------ AuthContext
initialState(stored) ==
  [user |-> None, token |-> stored, isAuthenticated |-> FALSE, isLoading |-> TRUE]

\* authReducer whose LOGIN_FAILURE case forgets to reset isAuthenticated.
authReducer_failureKeepsAuth(s, action) ==
  CASE action.type = "LOGIN_START" ->
         [s EXCEPT !.isLoading = TRUE]
    [] action.type = "LOGIN_SUCCESS" ->
         [s EXCEPT !.user = action.user, !.token = action.token,
                   !.isAuthenticated = TRUE, !.isLoading = FALSE]
    [] action.type = "LOGIN_FAILURE" ->
         [s EXCEPT !.user = None, !.token = None, !.isLoading = FALSE]
    [] action.type = "LOGOUT" ->
         [s EXCEPT !.user = None, !.token = None,
                   !.isAuthenticated = FALSE, !.isLoading = FALSE]
    [] action.type = "SET_LOADING" ->
         [s EXCEPT !.isLoading = action.payload]
    [] action.type = "UPDATE_USER" ->
         [s EXCEPT !.user = action.payload]
    [] OTHER -> s

\* authReducer whose UPDATE_USER case also ends loading.
authReducer_updateEndsLoading(s, action) ==
  CASE action.type = "LOGIN_START" ->
         [s EXCEPT !.isLoading = TRUE]
    [] action.type = "LOGIN_SUCCESS" ->
         [s EXCEPT !.user = action.user, !.token = action.token,
                   !.isAuthenticated = TRUE, !.isLoading = FALSE]
    [] action.type = "LOGIN_FAILURE" ->
         [s EXCEPT !.user = None, !.token = None,
                   !.isAuthenticated = FALSE, !.isLoading = FALSE]
    [] action.type = "LOGOUT" ->
         [s EXCEPT !.user = None, !.token = None,
                   !.isAuthenticated = FALSE, !.isLoading = FALSE]
    [] action.type = "SET_LOADING" ->
         [s EXCEPT !.isLoading = action.payload]
    [] action.type = "UPDATE_USER" ->
         [s EXCEPT !.user = action.payload, !.isLoading = FALSE]
    [] OTHER -> s

\* authReducer whose LOGIN_FAILURE case leaves isLoading as it was.
authReducer_failureKeepsLoading(s, action) ==
  CASE action.type = "LOGIN_START" ->
         [s EXCEPT !.isLoading = TRUE]
    [] action.type = "LOGIN_SUCCESS" ->
         [s EXCEPT !.user = action.user, !.token = action.token,
                   !.isAuthenticated = TRUE, !.isLoading = FALSE]
    [] action.type = "LOGIN_FAILURE" ->
         [s EXCEPT !.user = None, !.token = None, !.isAuthenticated = FALSE]
    [] action.type = "LOGOUT" ->
         [s EXCEPT !.user = None, !.token = None,
                   !.isAuthenticated = FALSE, !.isLoading = FALSE]
    [] action.type = "SET_LOADING" ->
         [s EXCEPT !.isLoading = action.payload]
    [] action.type = "UPDATE_USER" ->
         [s EXCEPT !.user = action.payload]
    [] OTHER -> s

\* authReducer whose LOGIN_START case starts from a cleared session.
authReducer_startClears(s, action) ==
  CASE action.type = "LOGIN_START" ->
         [s EXCEPT !.user = None, !.isAuthenticated = FALSE, !.isLoading = TRUE]
    [] action.type = "LOGIN_SUCCESS" ->
         [s EXCEPT !.user = action.user, !.token = action.token,
                   !.isAuthenticated = TRUE, !.isLoading = FALSE]
    [] action.type = "LOGIN_FAILURE" ->
         [s EXCEPT !.user = None, !.token = None,
                   !.isAuthenticated = FALSE, !.isLoading = FALSE]
    [] action.type = "LOGOUT" ->
         [s EXCEPT !.user = None, !.token = None,
                   !.isAuthenticated = FALSE, !.isLoading = FALSE]
    [] action.type = "SET_LOADING" ->
         [s EXCEPT !.isLoading = action.payload]
    [] action.type = "UPDATE_USER" ->
         [s EXCEPT !.user = action.payload]
    [] OTHER -> s

authReducer(s, action) ==
  CASE action.type = "LOGIN_START" ->
         [s EXCEPT !.isLoading = TRUE]
    [] action.type = "LOGIN_SUCCESS" ->
         [s EXCEPT !.user = action.user, !.token = action.token,
                   !.isAuthenticated = TRUE, !.isLoading = FALSE]
    [] action.type = "LOGIN_FAILURE" ->
         [s EXCEPT !.user = None, !.token = None,
                   !.isAuthenticated = FALSE, !.isLoading = FALSE]
    [] action.type = "LOGOUT" ->
         [s EXCEPT !.user = None, !.token = None,
                   !.isAuthenticated = FALSE, !.isLoading = FALSE]
    [] action.type = "SET_LOADING" ->
         [s EXCEPT !.isLoading = action.payload]
    [] action.type = "UPDATE_USER" ->
         [s EXCEPT !.user = action.payload]
    [] OTHER -> s

\* ------------------------------------------------------------ authService
\* Request interceptor with the test on the token inverted.
RequestInterceptor_inverted(stored) == IF stored = None THEN stored ELSE None

\* Request interceptor: the Authorization header of a request sent now.
RequestInterceptor(stored) == IF stored # None THEN stored ELSE None

\* Response interceptor, error branch: effects of a rejected response.
InterceptStorage(resp, stored) == IF resp.status = 401 THEN None ELSE stored
InterceptLocation(resp, loc) == IF resp.status = 401 THEN "/login" ELSE loc

\* Responses of the remote API.  status 0 is a transport failure
\* (error.response undefined).
Resp(st, t, u, d) == [status |-> st, tok |-> t, usr |-> u, detail |-> d]
LoginOK == {Resp(200, t, u, None) : t \in Tokens, u \in Users}
MeOK == {Resp(200, None, u, None) : u \in Users}
PlainOK == {Resp(200, None, None, None)}
RefreshOK == {Resp(200, t, None, None) : t \in Tokens}
Errors == {Resp(st, None, None, d) : st \in {401, 500}, d \in Details \cup {None}}
            \cup {Resp(0, None, None, None)}

ServiceOK(k) == IF k = "refresh" THEN RefreshOK ELSE PlainOK

\* A catch block that always reports the generic message.
DetailOr_alwaysGeneric(resp, fallback) == fallback

\* error.response?.data?.detail || fallback
DetailOr(resp, fallback) == IF resp.detail # None THEN resp.detail ELSE fallback

Request(i, k, stored) ==
  [id |-> i, kind |-> k, auth |-> RequestInterceptor(stored), stale |-> FALSE]

Event(o, i, resp, st, th, msg) ==
  [op |-> o, id |-> i, status |-> resp.status, tok |-> resp.tok, usr |-> resp.usr,
   detail |-> resp.detail, stale |-> st, thrown |-> th, toast |-> msg]
NoResp == Resp(-1, None, None, None)

InFlight(k) == {r \in net : r.kind = k}

\* ------------------------------------------------------------------ Init
Init ==
  /\ localStorage \in Tokens \cup {None}
  /\ state = initialState(localStorage)
  /\ location = "app"
  /\ initPc = "start"
  /\ initToken = None
  /\ net = {}
  /\ nreq = 0
  /\ lastLogin = 0
  /\ lastOut = NoResp
  /\ lastAuth = "none"
  /\ lastOK = [tok |-> None, usr |-> None]
  /\ bootToken = localStorage
  /\ meSent = 0
  /\ ev = Event("boot", 0, NoResp, FALSE, FALSE, None)

\* --------------------------------------------------------------- actions
\* initializeAuth that asks for the current user without looking at the token.
InitializeAuth_alwaysAsks ==
  /\ initPc = "start"
  /\ initToken' = localStorage
  /\ net' = net \cup {Request(nreq + 1, "me", localStorage)}
  /\ nreq' = nreq + 1
  /\ meSent' = meSent + 1
  /\ initPc' = "waiting"
  /\ state' = state
  /\ ev' = Event("initializeAuth", 0, NoResp, FALSE, FALSE, None)
  /\ UNCHANGED <<localStorage, location, lastLogin, lastOut, lastAuth, lastOK, bootToken>>

\* Mount effect without its dependency list: it runs again after a render
\* that follows its own completion.
InitializeAuth_everyRender ==
  /\ initPc \in {"start", "done"}
  /\ initToken' = localStorage
  /\ IF localStorage # None
       THEN /\ net' = net \cup {Request(nreq + 1, "me", localStorage)}
            /\ nreq' = nreq + 1
            /\ meSent' = meSent + 1
            /\ initPc' = "waiting"
            /\ state' = state
       ELSE /\ state' = authReducer(state, [type |-> "SET_LOADING", payload |-> FALSE])
            /\ initPc' = "done"
            /\ UNCHANGED <<net, nreq, meSent>>
  /\ ev' = Event("initializeAuth", 0, NoResp, FALSE, FALSE, None)
  /\ UNCHANGED <<localStorage, location, lastLogin, lastOut, lastAuth, lastOK, bootToken>>

\* useEffect(..., []) of AuthProvider up to the first await.
InitializeAuth ==
  /\ initPc = "start"
  /\ initToken' = localStorage
  /\ IF localStorage # None
       THEN /\ net' = net \cup {Request(nreq + 1, "me", localStorage)}
            /\ nreq' = nreq + 1
            /\ meSent' = meSent + 1
            /\ initPc' = "waiting"
            /\ state' = state
       ELSE /\ state' = authReducer(state, [type |-> "SET_LOADING", payload |-> FALSE])
            /\ initPc' = "done"
            /\ UNCHANGED <<net, nreq, meSent>>
  /\ ev' = Event("initializeAuth", 0, NoResp, FALSE, FALSE, None)
  /\ UNCHANGED <<localStorage, location, lastLogin, lastOut, lastAuth, lastOK, bootToken>>

\* initializeAuth that dispatches the token found in storage when the answer
\* arrives instead of the one it read before the request.
InitResponse_rereadsToken(r, resp) ==
  /\ initPc = "waiting"
  /\ r \in InFlight("me")
  /\ net' = net \ {r}
  /\ initPc' = "done"
  /\ location' = InterceptLocation(resp, location)
  /\ IF resp.status = 200
       THEN /\ state' = authReducer(state, [type |-> "LOGIN_SUCCESS",
                                           user |-> resp.usr, token |-> localStorage])
            /\ localStorage' = localStorage
            /\ lastAuth' = "ok"
       ELSE /\ localStorage' = None
            /\ state' = authReducer(state, [type |-> "LOGOUT"])
            /\ lastAuth' = "fail"
  /\ ev' = Event("initResp", r.id, resp, r.stale, FALSE, None)
  /\ UNCHANGED <<initToken, nreq, lastLogin, lastOut, lastOK, bootToken, meSent>>

\* initializeAuth whose catch block leaves the token to the interceptor.
InitResponse_catchKeepsToken(r, resp) ==
  /\ initPc = "waiting"
  /\ r \in InFlight("me")
  /\ net' = net \ {r}
  /\ initPc' = "done"
  /\ location' = InterceptLocation(resp, location)
  /\ IF resp.status = 200
       THEN /\ state' = authReducer(state, [type |-> "LOGIN_SUCCESS",
                                           user |-> resp.usr, token |-> initToken])
            /\ localStorage' = localStorage
            /\ lastAuth' = "ok"
       ELSE /\ localStorage' = InterceptStorage(resp, localStorage)
            /\ state' = authReducer(state, [type |-> "LOGOUT"])
            /\ lastAuth' = "fail"
  /\ ev' = Event("initResp", r.id, resp, r.stale, FALSE, None)
  /\ UNCHANGED <<initToken, nreq, lastLogin, lastOut, lastOK, bootToken, meSent>>

\* initializeAuth resumed by the answer to GET /auth/me.
InitResponse(r, resp) ==
  /\ initPc = "waiting"
  /\ r \in InFlight("me")
  /\ net' = net \ {r}
  /\ initPc' = "done"
  /\ location' = InterceptLocation(resp, location)
  /\ IF resp.status = 200
       THEN /\ state' = authReducer(state, [type |-> "LOGIN_SUCCESS",
                                           user |-> resp.usr, token |-> initToken])
            /\ localStorage' = localStorage
            /\ lastAuth' = "ok"
       ELSE /\ localStorage' = None
            /\ state' = authReducer(state, [type |-> "LOGOUT"])
            /\ lastAuth' = "fail"
  /\ ev' = Event("initResp", r.id, resp, r.stale, FALSE, None)
  /\ UNCHANGED <<initToken, nreq, lastLogin, lastOut, lastOK, bootToken, meSent>>

\* login(email, password) up to the await.  Like every call made by the UI it
\* can only follow the mount effect, which React runs before it handles any
\* event.
LoginStart ==
  /\ initPc # "start"
  /\ nreq < MaxReq
  /\ state' = authReducer(state, [type |-> "LOGIN_START"])
  /\ net' = net \cup {Request(nreq + 1, "login", localStorage)}
  /\ nreq' = nreq + 1
  /\ lastLogin' = nreq + 1
  /\ lastOut' = NoResp
  /\ ev' = Event("loginStart", nreq + 1, NoResp, FALSE, FALSE, None)
  /\ UNCHANGED <<localStorage, location, initPc, initToken, lastAuth, lastOK, bootToken, meSent>>

\* login resumed by the answer to POST /auth/login/email.
LoginResponse(r, resp) ==
  /\ r \in InFlight("login")
  /\ net' = net \ {r}
  /\ location' = InterceptLocation(resp, location)
  /\ IF resp.status = 200
       THEN /\ localStorage' = resp.tok
            /\ state' = authReducer(state, [type |-> "LOGIN_SUCCESS",
                                           user |-> resp.usr, token |-> resp.tok])
            /\ lastAuth' = "ok"
            /\ lastOK' = [tok |-> resp.tok, usr |-> resp.usr]
            /\ ev' = Event("loginResp", r.id, resp, r.stale, FALSE, "Login successful!")
       ELSE /\ localStorage' = InterceptStorage(resp, localStorage)
            /\ state' = authReducer(state, [type |-> "LOGIN_FAILURE",
                                           payload |-> DetailOr(resp, "Login failed")])
            /\ lastAuth' = "fail"
            /\ lastOK' = lastOK
            /\ ev' = Event("loginResp", r.id, resp, r.stale, TRUE,
                           DetailOr(resp, "Login failed"))
  /\ lastOut' = IF r.id = lastLogin THEN resp ELSE lastOut
  /\ UNCHANGED <<initPc, initToken, nreq, lastLogin, bootToken, meSent>>

\* register(userData) up to the await.
RegisterStart ==
  /\ initPc # "start"
  /\ nreq < MaxReq
  /\ state' = authReducer(state, [type |-> "LOGIN_START"])
  /\ net' = net \cup {Request(nreq + 1, "register", localStorage)}
  /\ nreq' = nreq + 1
  /\ ev' = Event("registerStart", nreq + 1, NoResp, FALSE, FALSE, None)
  /\ UNCHANGED <<localStorage, location, initPc, initToken, lastLogin, lastOut, lastAuth,
                 lastOK, bootToken, meSent>>

\* register resumed by the answer to POST /auth/register.
RegisterResponse(r, resp) ==
  /\ r \in InFlight("register")
  /\ net' = net \ {r}
  /\ location' = InterceptLocation(resp, location)
  /\ IF resp.status = 200
       THEN /\ state' = state
            /\ localStorage' = localStorage
            /\ ev' = Event("registerResp", r.id, resp, r.stale, FALSE,
                           "Registration successful! Please log in.")
       ELSE /\ localStorage' = InterceptStorage(resp, localStorage)
            /\ state' = authReducer(state, [type |-> "LOGIN_FAILURE",
                                           payload |-> DetailOr(resp, "Registration failed")])
            /\ ev' = Event("registerResp", r.id, resp, r.stale, TRUE,
                           DetailOr(resp, "Registration failed"))
  /\ UNCHANGED <<initPc, initToken, nreq, lastLogin, lastOut, lastAuth, lastOK, bootToken, meSent>>

\* logout that only dispatches LOGOUT and leaves the stored token alone.
Logout_keepsStoredToken ==
  /\ initPc # "start"
  /\ localStorage' = localStorage
  /\ state' = authReducer(state, [type |-> "LOGOUT"])
  /\ net' = {IF r.kind = "login" THEN [r EXCEPT !.stale = TRUE] ELSE r : r \in net}
  /\ ev' = Event("logout", 0, NoResp, FALSE, FALSE, "Logged out successfully")
  /\ UNCHANGED <<location, initPc, initToken, nreq, lastLogin, lastOut, lastAuth, lastOK, bootToken, meSent>>

\* logout(): removeItem, authService.logout (removeItem again), dispatch.
Logout ==
  /\ initPc # "start"
  /\ localStorage' = None
  /\ state' = authReducer(state, [type |-> "LOGOUT"])
  /\ net' = {IF r.kind = "login" THEN [r EXCEPT !.stale = TRUE] ELSE r : r \in net}
  /\ ev' = Event("logout", 0, NoResp, FALSE, FALSE, "Logged out successfully")
  /\ UNCHANGED <<location, initPc, initToken, nreq, lastLogin, lastOut, lastAuth, lastOK, bootToken, meSent>>

\* updateUser(user)
UpdateUser(u) ==
  /\ initPc # "start"
  /\ state' = authReducer(state, [type |-> "UPDATE_USER", payload |-> u])
  /\ ev' = Event("updateUser", 0, Resp(-1, None, u, None), FALSE, FALSE, None)
  /\ UNCHANGED <<localStorage, location, initPc, initToken, net, nreq, lastLogin, lastOut,
                 lastAuth, lastOK, bootToken, meSent>>

\* refreshToken / changePassword / requestPasswordReset / confirmPasswordReset
\* of authService, up to the await.
ServiceStart(k) ==
  /\ initPc # "start"
  /\ nreq < MaxReq
  /\ net' = net \cup {Request(nreq + 1, k, localStorage)}
  /\ nreq' = nreq + 1
  /\ ev' = Event(k, nreq + 1, NoResp, FALSE, FALSE, None)
  /\ UNCHANGED <<state, localStorage, location, initPc, initToken, lastLogin, lastOut, lastAuth,
                 lastOK, bootToken, meSent>>

\* Service call that stores the access_token returned by a refresh.
ServiceResponse_storesRefreshed(r, resp) ==
  /\ r \in net
  /\ r.kind \in OtherKinds
  /\ net' = net \ {r}
  /\ location' = InterceptLocation(resp, location)
  /\ localStorage' = IF resp.status = 200
                       THEN (IF r.kind = "refresh" THEN resp.tok ELSE localStorage)
                       ELSE InterceptStorage(resp, localStorage)
  /\ ev' = Event(r.kind \o "Resp", r.id, resp, r.stale, resp.status # 200, None)
  /\ UNCHANGED <<state, initPc, initToken, nreq, lastLogin, lastOut, lastAuth, lastOK,
                 bootToken, meSent>>

\* ... and resumed by the answer: response.data is returned, an error rethrown.
ServiceResponse(r, resp) ==
  /\ r \in net
  /\ r.kind \in OtherKinds
  /\ net' = net \ {r}
  /\ location' = InterceptLocation(resp, location)
  /\ localStorage' = IF resp.status = 200 THEN localStorage
                     ELSE InterceptStorage(resp, localStorage)
  /\ ev' = Event(r.kind \o "Resp", r.id, resp, r.stale, resp.status # 200, None)
  /\ UNCHANGED <<state, initPc, initToken, nreq, lastLogin, lastOut, lastAuth, lastOK, bootToken, meSent>>

Next ==
  \/ InitializeAuth
  \/ \E r \in net, resp \in MeOK \cup Errors : InitResponse(r, resp)
  \/ LoginStart
  \/ \E r \in net, resp \in LoginOK \cup Errors : LoginResponse(r, resp)
  \/ RegisterStart
  \/ \E r \in net, resp \in PlainOK \cup Errors : RegisterResponse(r, resp)
  \/ Logout
  \/ \E u \in Users : UpdateUser(u)
  \/ \E k \in OtherKinds : ServiceStart(k)
  \/ \E r \in net :
        \E resp \in ServiceOK(r.kind) \cup Errors : ServiceResponse(r, resp)

Spec == Init /\ [][Next]_vars

Anonymous(s) ==
  s.user = None /\ s.token = None /\ ~s.isAuthenticated /\ ~s.isLoading

\* ---------------------------------------------------------------- claims
NoLoginInFlight == InFlight("login") = {}
LoginApplied == ev.op = "loginResp"
LoginSucceeded == LoginApplied /\ ev.status = 200
LoginFailed == LoginApplied /\ ev.status # 200

\* C1: when every issued login has been answered and a login response was the
\* last thing applied, the session and the persisted token show the outcome
\* of the login that was issued last, whatever the order of arrival.
C1_LastIssuedLoginWins ==
  (LoginApplied /\ NoLoginInFlight) =>
     IF lastOut.status = 200
       THEN /\ state.user = lastOut.usr /\ state.token = lastOut.tok
            /\ state.isAuthenticated /\ localStorage = lastOut.tok
       ELSE state.user = None /\ state.token = None /\ ~state.isAuthenticated

\* C2: the step applying a successful login leaves token T persisted and in
\* the session with user U and isAuthenticated; and afterwards the token of
\* that login is never persisted while the session has no identity, nor is
\* the session authenticated with that token while it is not persisted.
C2_LoginSuccessAtomic ==
  /\ LoginSucceeded =>
       /\ localStorage = ev.tok /\ state.token = ev.tok
       /\ state.user = ev.usr /\ state.isAuthenticated
  /\ lastOK.tok # None =>
       /\ localStorage = lastOK.tok => (state.user # None /\ state.isAuthenticated)
       /\ (state.isAuthenticated /\ state.token = lastOK.tok) => localStorage = lastOK.tok

\* C3: after a failed login the session is anonymous and no token is left in
\* persistent storage.
C3_LoginFailureClearsToken ==
  LoginFailed => (Anonymous(state) /\ localStorage = None)

\* C4: logout never throws and leaves the persisted token absent and the
\* session anonymous, in the very step that calls it, whatever is in flight.
C4_LogoutAnonymous ==
  ev.op = "logout" => (Anonymous(state) /\ localStorage = None /\ ~ev.thrown)

C4_Witness ==
  ev.op = "logout" /\ InFlight("login") # {} /\ bootToken # None

\* C5: a successful login response that arrives after a logout called while
\* the login was in flight neither authenticates the session nor writes its
\* token to persistent storage.
C5_StaleLoginDiscarded ==
  (LoginSucceeded /\ ev.stale) => (~state.isAuthenticated /\ localStorage # ev.tok)

\* C6: when the process started with a token persisted and GET /auth/me
\* succeeds with user U, the step ending initialization leaves the session
\* authenticated with user U, the token persisted at start, isLoading false.
C6_InitSuccess ==
  (ev.op = "initResp" /\ ev.status = 200) =>
     state = [user |-> ev.usr, token |-> bootToken,
              isAuthenticated |-> TRUE, isLoading |-> FALSE]

C6_Witness ==
  ev.op = "initResp" /\ ev.status = 200 /\ bootToken # None /\ initPc = "done"

\* C7: when GET /auth/me of initialization fails with any error, the session
\* ends anonymous and the persisted token is removed.
C7_InitFailure ==
  (ev.op = "initResp" /\ ev.status # 200) =>
     (Anonymous(state) /\ localStorage = None /\ initPc = "done")

C7_Witness ==
  ev.op = "initResp" /\ ev.status = 500 /\ bootToken # None

\* C8: started without a persisted token, initialization goes to anonymous
\* without a request; GET /auth/me is issued by initialization exactly when a
\* token was persisted at start.
C8_InitNoToken ==
  /\ (ev.op = "initializeAuth" /\ bootToken = None) =>
        (Anonymous(state) /\ net = {} /\ initPc = "done")
  /\ initPc = "start" => meSent = 0
  /\ initPc # "start" => (meSent = 1 <=> bootToken # None) /\ meSent <= 1

C8_Witness ==
  ev.op = "initializeAuth" /\ bootToken = None /\ ~state.isLoading

\* C9 (as claimed): isAuthenticated is true iff user and token are present.
C9_AuthIffUserAndToken ==
  state.isAuthenticated <=> (state.user # None /\ state.token # None)

\* C9 (amended): isAuthenticated is true iff user and token are present and
\* the last authentication attempt applied (login or session restoration)
\* succeeded.
C9_AuthIffLastAttemptOK ==
  state.isAuthenticated <=>
     (state.user # None /\ state.token # None /\ lastAuth = "ok")

C9_Witness ==
  state.user # None /\ state.token # None /\ ~state.isAuthenticated

\* C10: isLoading is true only while a login request or the initial
\* restoration is outstanding.
C10_LoadingOnlyInFlight ==
  state.isLoading => (InFlight("login") # {} \/ initPc \in {"start", "waiting"})

RegisterStep ==
  RegisterStart \/ \E r \in net : \E resp \in PlainOK \cup Errors : RegisterResponse(r, resp)

\* C11: no step of register (the call, the success, the failure) changes a
\* field of the session or the persisted token.
C11_RegisterLeavesSession ==
  [][RegisterStep => (state' = state /\ localStorage' = localStorage)]_vars

\* C12: updateUser(U) in an authenticated session replaces the user by U and
\* leaves token, isAuthenticated, isLoading and the persisted token as they
\* were.
C12_UpdateUserFrame ==
  [][\A u \in Users :
       (UpdateUser(u) /\ state.isAuthenticated) =>
          /\ state' = [state EXCEPT !.user = u]
          /\ state'.isAuthenticated
          /\ localStorage' = localStorage]_vars

C12_Witness ==
  /\ ev.op = "updateUser" /\ state.isAuthenticated /\ state.user = ev.usr
  /\ state.isLoading /\ InFlight("login") # {}

Unauthorized == ev.status = 401

\* C13: a 401 answer to any request leaves the persisted token deleted, the
\* session in memory without identity and not authenticated, and the location
\* set to the login entry point.
C13_UnauthorizedForcesLogout ==
  Unauthorized =>
     /\ localStorage = None
     /\ location = "/login"
     /\ state.user = None /\ ~state.isAuthenticated

\* C14: a 401 answer is never rejected to the caller and raises no failure
\* notification.
C14_UnauthorizedNotSurfaced ==
  Unauthorized => (~ev.thrown /\ ev.toast = None)

LoginWrote == ev'.op = "loginResp" /\ ev'.status = 200
LogoutDeleted == ev'.op = "logout"
UnauthorizedDeleted == ev'.status = 401
InitFailureDeleted == ev'.op = "initResp" /\ ev'.status # 200

\* C15 (as claimed): the persisted token is written only by the step applying
\* a successful login and deleted only by logout or by a 401 answer.
C15_TokenLifecycle ==
  [][localStorage' # localStorage =>
       IF localStorage' # None THEN LoginWrote
       ELSE LogoutDeleted \/ UnauthorizedDeleted]_vars

\* C15 (amended): ... and deleted only by logout, by a 401 answer, or by the
\* initial get-current-identity request failing with any error.
C15_TokenLifecycleWithInit ==
  [][localStorage' # localStorage =>
       IF localStorage' # None THEN LoginWrote
       ELSE LogoutDeleted \/ UnauthorizedDeleted \/ InitFailureDeleted]_vars

C15_Witness ==
  /\ ev.op = "initResp" /\ ev.status = 0
  /\ bootToken # None /\ localStorage = None /\ location = "app"

RequestFailed ==
  ev.op \in {"loginResp", "registerResp", "initResp"} /\ ev.status # 200

\* C16: the step in which a login, register or initialization request ends in
\* an error leaves the session anonymous, or authenticated, with isLoading
\* false: never loading.
C16_WellDefinedAfterError ==
  RequestFailed =>
     /\ ~state.isLoading
     /\ \/ Anonymous(state)
        \/ (state.isAuthenticated /\ state.user # None /\ state.token # None)

C16_Witness ==
  ev.op = "registerResp" /\ ev.status = 500 /\ InFlight("login") # {}

\* The four states of the design, read off the run.
Initializing == initPc # "done"
Authenticating ==
  initPc = "done" /\ ev.op = "loginStart" /\ ~state.isAuthenticated

\* C17: a guard that reads the session only can block while initializing and
\* redirect while authenticating: the session of a run that is authenticating
\* differs from the session it had while it was initializing.
C17_GuardTellsStatesApart ==
  Authenticating => state # initialState(bootToken)

GenericMessage ==
  IF ev.op = "loginResp" THEN "Login failed" ELSE "Registration failed"

\* C18: a login or register that fails with anything but a 401 rejects to its
\* caller and reports the detail of the response when it has one, the generic
\* message otherwise.
C18_FailureMessage ==
  (ev.op \in {"loginResp", "registerResp"} /\ ev.status \notin {200, 401}) =>
     /\ ev.thrown
     /\ ev.toast = (IF ev.detail # None THEN ev.detail ELSE GenericMessage)

C18_Witness ==
  /\ ev.op = "registerResp" /\ ev.status = 500 /\ ev.detail \in Details
  /\ ev.toast = ev.detail

\* C19: a request carries, as its Authorization header, the token persisted
\* at the moment it is sent, and no header when none is persisted.
C19_BearerIsStoredToken ==
  [][\A r \in net' :
       (r.id \notin {q.id : q \in net}) => r.auth = localStorage]_vars

C19_Witness ==
  \E r \in net : r.id = nreq /\ r.kind = "login" /\ r.auth \in Tokens /\ r.auth # bootToken

\* C20: initialization runs once: it sends at most one get-current-identity
\* request, and once it has ended no step of it is taken again.
C20_InitOnce ==
  [][/\ meSent' <= 1
     /\ initPc = "done" => initPc' = "done"
     /\ ev'.op \in {"initializeAuth", "initResp"} => initPc # "done"]_vars

C20_Witness ==
  initPc = "done" /\ meSent = 1 /\ ev.op = "loginResp" /\ nreq = MaxReq

\* C21: whenever the session is authenticated, a token is persisted and it is
\* the token of the session.
C21_SessionTokenIsStored ==
  state.isAuthenticated => (localStorage # None /\ state.token = localStorage)

InitFailsNow == initPc = "waiting" /\ ev'.op = "initResp" /\ ev'.status # 200

\* C22: when the initial get-current-identity request fails after a login has
\* authenticated the session, the session stays authenticated and the token
\* the login persisted stays in storage.
C22_LoginSurvivesInitFailure ==
  [][(InitFailsNow /\ state.isAuthenticated /\ localStorage = lastOK.tok) =>
        (state'.isAuthenticated /\ localStorage' = localStorage)]_vars

\* C23: isLoading is true as long as the initial get-current-identity request
\* is in flight.
C23_LoadingWhileInitInFlight ==
  initPc = "waiting" => state.isLoading

\* C24: the login-start step sets isLoading and changes nothing else of the
\* session, nor the persisted token.
C24_LoginStartFrame ==
  [][LoginStart =>
        /\ state' = [state EXCEPT !.isLoading = TRUE]
        /\ localStorage' = localStorage]_vars

C24_Witness ==
  /\ ev.op = "loginStart" /\ state.isAuthenticated /\ state.isLoading
  /\ state.user # None /\ localStorage = state.token

ServiceSucceeded ==
  \E r \in net : r.kind \in OtherKinds /\ ev'.op = r.kind \o "Resp" /\ ev'.status = 200

\* C25: a successful refresh or password call changes neither the session nor
\* the persisted token, so the header of the next request is the one the old
\* token gives.
C25_ServiceCallFrame ==
  [][ServiceSucceeded =>
        /\ state' = state
        /\ localStorage' = localStorage
        /\ RequestInterceptor(localStorage') = RequestInterceptor(localStorage)]_vars

C25_Witness ==
  /\ ev.op = "refreshResp" /\ ev.status = 200
  /\ localStorage \in Tokens /\ ev.tok \in Tokens /\ ev.tok # localStorage

TypeOK ==
  /\ state.user \in Users \cup {None}
  /\ state.token \in Tokens \cup {None}
  /\ localStorage \in Tokens \cup {None}
  /\ nreq \in 0..(MaxReq + 1)
====
